---- MODULE Spec2Model ----
(***************************************************************************)
(* Model of streaming-speech-translation.py: a microphone capture callback *)
(* fills a queue, a resumable generator turns the queue into the audio of  *)
(* one recognition session at a time, and the main thread reads the        *)
(* recognition results, translates and synthesizes every final utterance   *)
(* and plays the clips, until a final result holds an exit keyword.        *)
(*                                                                         *)
(* Threads: the PortAudio callback (Callback), the request thread of the   *)
(* recognition call, which iterates generator() (Gen* actions), the main   *)
(* thread (Main*, Listen*, Translate, Synth*, IncRecord, Exit* actions)    *)
(* and the wall clock (Tick).  Time is counted in ticks; a chunk is named  *)
(* by its position in the capture order (1, 2, ...), the sentinel None by  *)
(* 0.  A step of a thread is atomic up to its next access to what another  *)
(* thread reads or writes, or to its next reading of the clock.            *)
(***************************************************************************)
EXTENDS Integers, Sequences, FiniteSets, TLC

\* ---------------------------------------------------------------- bounds
MaxChunks == 2       \* chunks the capture callback delivers in a run
MaxTime == 2         \* last clock reading of a run
MaxResponses == 2    \* responses the recognition backend delivers in a run
MaxClipLen == 1      \* longest synthesized clip, in ticks
MaxFrags == 4        \* longest probe transcript, in fragments

\* ------------------------------------------------------ program constants
STREAMING_LIMIT == 1 \* line 64 (55000 ms), scaled to ticks

None == 0            \* the terminal sentinel of the CaptureBuffer

VARIABLES
    now,          \* the wall clock: time.time(), get_current_time()
    buff,         \* self._buff, head first
    enq,          \* number of chunks the callback has put so far
    put,          \* history: everything put into self._buff, in order
    device,       \* self._audio_stream: "none", "active", "closed"
    terminated,   \* self._audio_interface.terminate() was called
    closed,       \* self.closed
    start_time,   \* self.start_time
    gen,          \* position of the running generator() frame
    genEnd,       \* why the last generator() ended: "", "expiry",
                  \* "closed" or "sentinel"
    genEndClosed, \* history: the value of self.closed when it ended
    data,         \* generator local
    reading,      \* generator: the elapsed time read by the test of line
                  \* 133 in this round
    session,      \* number of generator() calls so far
    delivered,    \* history: the units yielded, with their session
    pc,           \* position of the main thread
    vocab,        \* transcripts the recognition backend may return
    nread,        \* responses read so far from the result streams
    got,          \* history: the response read last, <<>> before the first
    heard,        \* history: the responses that passed the filter of line 205
    num_chars_printed, \* listen_loop local
    shown,        \* history: the last display update [text, pad, final]
    line,         \* the display: length of the interim text that stands on
                  \* the current line of the terminal, 0 on a fresh line
    dispatched,   \* history: the texts passed to translate_text
    RECORD_INC,
    PLAY_INC,
    mp3Length,    \* synthesize_text local
    start,        \* synthesize_text local
    files,        \* history: the clip files written, in order [index,
                  \* length, sess]
    plays,        \* history: the playsound calls [clip, len, overlap, waited]
    playing,      \* ticks of sound the player still has to play
    failed        \* a backend call raised

vars == <<now, buff, enq, put, device, terminated, closed, start_time, gen,
          genEnd, genEndClosed, data, reading, session, delivered, pc, vocab,
          nread, got, heard, num_chars_printed, shown, line, dispatched,
          RECORD_INC, PLAY_INC, mp3Length, start, files, plays, playing,
          failed>>

audioVars == <<buff, enq, put, device, terminated, closed, start_time>>
genVars == <<gen, genEnd, genEndClosed, data, reading, session, delivered>>
listenVars ==
    <<vocab, nread, got, heard, num_chars_printed, shown, line,
      dispatched>>
synthVars ==
    <<RECORD_INC, PLAY_INC, mp3Length, start, files, plays, playing>>

\* ------------------------------------------------------------- helpers
Last(s) == s[Len(s)]

RECURSIVE Flatten(_)
Flatten(ss) == IF ss = <<>> THEN <<>> ELSE Head(ss) \o Flatten(Tail(ss))

\* get_current_time(), lines 70-71
get_current_time == now

\* ------------------------------------------------- the exit-keyword test
\* The characters of the model's transcripts.  \w of the pattern is a letter,
\* a digit or the underscore; blank and full stop are not.
Letters == {"e", "x", "i", "t", "q", "u", "s", "E", "X", "I", "T", "Q", "U"}
WordChars == Letters \cup {"_"}

\* re.I: the case folding of a pattern literal against a text character
Lower(c) ==
    CASE c = "E" -> "e" [] c = "X" -> "x" [] c = "I" -> "i" [] c = "T" -> "t"
      [] c = "Q" -> "q" [] c = "U" -> "u" [] OTHER -> c

\* the literals "exit" and "quit" of the pattern of line 240
Keywords == { <<"e", "x", "i", "t">>, <<"q", "u", "i", "t">> }

\* mutant of WordBoundary: the pattern without \b, a substring search
NoBoundary(s, p) == p = p /\ Len(s) >= 0

\* \b at offset p of text s (p characters precede it): exactly one of the
\* characters before and after the offset is a word character
WordBoundary(s, p) ==
    (p > 0 /\ s[p] \in WordChars) # (p < Len(s) /\ s[p + 1] \in WordChars)

\* a literal of the pattern matches s from offset p, ignoring case
MatchLiteral(s, p, lit) ==
    /\ p + Len(lit) <= Len(s)
    /\ \A k \in 1..Len(lit) : Lower(s[p + k]) = lit[k]

\* the pattern \b(exit|quit)\b matches s from offset p
MatchAt(s, p) ==
    /\ WordBoundary(s, p)
    /\ \E lit \in Keywords :
          MatchLiteral(s, p, lit) /\ WordBoundary(s, p + Len(lit))

\* re.search(r'\b(exit|quit)\b', transcript, re.I), line 240
re_search(s) == \E p \in 0..Len(s) : MatchAt(s, p)

\* -------------------------------------------------- recognition responses
Result(t, f) == [alternatives |-> << [transcript |-> t] >>, is_final |-> f]
NoAlternatives == [alternatives |-> <<>>, is_final |-> FALSE]

\* the responses the backend may send when its transcripts come from ts
Responses(ts) ==
    { [results |-> <<>>], [results |-> <<NoAlternatives>>] }
      \cup { [results |-> <<Result(t, f)>>] : t \in ts, f \in BOOLEAN }

\* the filter of lines 205-206 (and the checks of lines 210 and 217)
Kept(r) == r.results # <<>> /\ r.results[1].alternatives # <<>>

\* ' ' * n of line 229: a string of n blanks, empty when n is negative
Spaces(n) == IF n > 0 THEN n ELSE 0

\* the transcripts the backend returns in the model of the whole program
Transcripts == { <<"s">>, <<"e", "x", "i", "t">> }

\* the probe transcripts: every concatenation of at most MaxFrags fragments
Fragments == { <<"e", "x">>, <<"i", "t">>, <<"q", "u">>, <<"E", "X">>,
               <<"I", "t">>, <<" ">>, <<"s">>, <<"_">> }
ProbeTranscripts ==
    UNION { { Flatten(fs) : fs \in [1..n -> Fragments] } : n \in 0..MaxFrags }

\* ------------------------------------------------------------------ Init
\* the state after the module is loaded and main has constructed
\* ResumableMicrophoneStream (lines 67-68, 80-97, 260)
InitWith(ts) ==
    /\ now = 0
    /\ buff = <<>>
    /\ enq = 0
    /\ put = <<>>
    /\ device = "none"
    /\ terminated = FALSE
    /\ closed = TRUE
    /\ start_time = 0
    /\ gen = "none"
    /\ genEnd = ""
    /\ genEndClosed = FALSE
    /\ data = <<>>
    /\ reading = 0
    /\ session = 0
    /\ delivered = <<>>
    /\ pc = "enter"
    /\ vocab = ts
    /\ nread = 0
    /\ got = <<>>
    /\ heard = <<>>
    /\ num_chars_printed = 0
    /\ shown = <<>>
    /\ line = 0
    /\ dispatched = <<>>
    /\ RECORD_INC = 0
    /\ PLAY_INC = 0
    /\ mp3Length = 0
    /\ start = 0
    /\ files = <<>>
    /\ plays = <<>>
    /\ playing = 0
    /\ failed = FALSE

Init == InitWith(Transcripts)

\* ----------------------------------------------------------------- clock
Tick ==
    /\ now < MaxTime
    /\ now' = now + 1
    /\ playing' = IF playing > 0 THEN playing - 1 ELSE 0
    /\ UNCHANGED <<audioVars, genVars, pc, listenVars, RECORD_INC, PLAY_INC,
                   mp3Length, start, files, plays, failed>>

\* ------------------------------------------------------ capture callback
\* mutant of Callback: the chunk is put at the head of the queue
CallbackAtHead ==
    /\ device = "active"
    /\ enq < MaxChunks
    /\ buff' = <<enq + 1>> \o buff
    /\ enq' = enq + 1
    /\ put' = Append(put, enq + 1)
    /\ UNCHANGED <<now, device, terminated, closed, start_time, genVars, pc,
                   listenVars, synthVars, failed>>

\* _fill_buffer, lines 126-129: runs while the audio stream is started
Callback ==
    /\ device = "active"
    /\ enq < MaxChunks
    /\ buff' = Append(buff, enq + 1)
    /\ enq' = enq + 1
    /\ put' = Append(put, enq + 1)
    /\ UNCHANGED <<now, device, terminated, closed, start_time, genVars, pc,
                   listenVars, synthVars, failed>>

\* ------------------------------------------------------------- generator
\* line 132: while not self.closed
GenWhile ==
    /\ gen = "while"
    /\ IF closed
         THEN gen' = "ended" /\ genEnd' = "closed" /\ genEndClosed' = closed
         ELSE gen' = "check" /\ UNCHANGED <<genEnd, genEndClosed>>
    /\ UNCHANGED <<now, audioVars, data, reading, session, delivered, pc,
                   listenVars, synthVars, failed>>

\* mutant of Expired: the window test written with >=
ExpiredAtLimit(elapsed) == elapsed >= STREAMING_LIMIT

\* line 133: if get_current_time() - self.start_time > STREAMING_LIMIT
Expired(elapsed) == elapsed > STREAMING_LIMIT

GenCheck ==
    /\ gen = "check"
    /\ reading' = get_current_time - start_time
    /\ gen' = IF Expired(reading') THEN "reset" ELSE "get"
    /\ UNCHANGED <<now, audioVars, genEnd, genEndClosed, data, session,
                   delivered, pc,
                   listenVars, synthVars, failed>>

\* mutant of GenReset: the restart also makes a new, empty queue
GenResetFlush ==
    /\ gen = "reset"
    /\ start_time' = get_current_time
    /\ buff' = <<>>
    /\ gen' = "ended"
    /\ genEnd' = "expiry"
    /\ genEndClosed' = closed
    /\ reading' = 0
    /\ UNCHANGED <<now, enq, put, device, terminated, closed, data, session,
                   delivered, pc, listenVars, synthVars, failed>>

\* mutant of GenReset: the window start is not reset
GenResetKeep ==
    /\ gen = "reset"
    /\ gen' = "ended"
    /\ genEnd' = "expiry"
    /\ genEndClosed' = closed
    /\ reading' = 0
    /\ UNCHANGED <<now, audioVars, data, session, delivered, pc, listenVars,
                   synthVars, failed>>

\* lines 134-135: self.start_time = get_current_time(); break
GenReset ==
    /\ gen = "reset"
    /\ start_time' = get_current_time
    /\ gen' = "ended"
    /\ genEnd' = "expiry"
    /\ genEndClosed' = closed
    /\ reading' = 0
    /\ UNCHANGED <<now, buff, enq, put, device, terminated, closed, data,
                   session, delivered, pc, listenVars, synthVars, failed>>

\* lines 139-142: the blocking get
GenGet ==
    /\ gen = "get"
    /\ buff # <<>>
    /\ buff' = Tail(buff)
    /\ IF Head(buff) = None
         THEN /\ gen' = "ended"
              /\ genEnd' = "sentinel"
              /\ genEndClosed' = closed
              /\ data' = <<>>
              /\ reading' = 0
         ELSE /\ gen' = "drain"
              /\ data' = <<Head(buff)>>
              /\ UNCHANGED <<genEnd, genEndClosed, reading>>
    /\ UNCHANGED <<now, enq, put, device, terminated, closed, start_time,
                   session, delivered, pc, listenVars, synthVars, failed>>

\* mutant of GenDrain: a sentinel met in the drain ends the drain only, and
\* the round yields what it has collected
GenDrainBreak ==
    /\ gen = "drain"
    /\ IF buff = <<>>
         THEN /\ delivered' =
                   Append(delivered,
                          [sess |-> session, data |-> data,
                           late |-> get_current_time - start_time
                                      > STREAMING_LIMIT])
              /\ gen' = "while"
              /\ data' = <<>>
              /\ reading' = 0
              /\ UNCHANGED <<buff, genEnd, genEndClosed>>
         ELSE /\ buff' = Tail(buff)
              /\ IF Head(buff) = None
                   THEN /\ delivered' =
                             Append(delivered,
                                    [sess |-> session, data |-> data,
                                     late |-> get_current_time - start_time
                                                > STREAMING_LIMIT])
                        /\ gen' = "while"
                        /\ data' = <<>>
                        /\ reading' = 0
                        /\ UNCHANGED <<genEnd, genEndClosed>>
                   ELSE /\ delivered' = delivered
                        /\ gen' = "drain"
                        /\ data' = Append(data, Head(buff))
                        /\ UNCHANGED <<genEnd, genEndClosed, reading>>
    /\ UNCHANGED <<now, enq, put, device, terminated, closed, start_time,
                   session, pc, listenVars, synthVars, failed>>

\* mutant of GenDrain: the drain does not keep the chunks it dequeues
GenDrainDiscard ==
    /\ gen = "drain"
    /\ IF buff = <<>>
         THEN /\ delivered' =
                   Append(delivered,
                          [sess |-> session, data |-> data,
                           late |-> get_current_time - start_time
                                      > STREAMING_LIMIT])
              /\ gen' = "while"
              /\ data' = <<>>
              /\ reading' = 0
              /\ UNCHANGED <<buff, genEnd, genEndClosed>>
         ELSE /\ buff' = Tail(buff)
              /\ delivered' = delivered
              /\ IF Head(buff) = None
                   THEN /\ gen' = "ended"
                        /\ genEnd' = "sentinel"
                        /\ genEndClosed' = closed
                        /\ data' = <<>>
                        /\ reading' = 0
                   ELSE /\ gen' = "drain"
                        /\ data' = data
                        /\ UNCHANGED <<genEnd, genEndClosed, reading>>
    /\ UNCHANGED <<now, enq, put, device, terminated, closed, start_time,
                   session, pc, listenVars, synthVars, failed>>

\* lines 145-154: one turn of the non-blocking drain; when the queue is
\* empty the round ends with yield b''.join(data), and the generator is
\* resumed at line 132
GenDrain ==
    /\ gen = "drain"
    /\ IF buff = <<>>
         THEN /\ delivered' =
                   Append(delivered,
                          [sess |-> session, data |-> data,
                           late |-> get_current_time - start_time
                                      > STREAMING_LIMIT])
              /\ gen' = "while"
              /\ data' = <<>>
              /\ reading' = 0
              /\ UNCHANGED <<buff, genEnd, genEndClosed>>
         ELSE /\ buff' = Tail(buff)
              /\ delivered' = delivered
              /\ IF Head(buff) = None
                   THEN /\ gen' = "ended"
                        /\ genEnd' = "sentinel"
                        /\ genEndClosed' = closed
                        /\ data' = <<>>
                        /\ reading' = 0
                   ELSE /\ gen' = "drain"
                        /\ data' = Append(data, Head(buff))
                        /\ UNCHANGED <<genEnd, genEndClosed, reading>>
    /\ UNCHANGED <<now, enq, put, device, terminated, closed, start_time,
                   session, pc, listenVars, synthVars, failed>>

\* ----------------------------------------------------------- main thread
\* __enter__, lines 99-115
MainEnter ==
    /\ pc = "enter"
    /\ closed' = FALSE
    /\ device' = "active"
    /\ pc' = "while"
    /\ UNCHANGED <<now, buff, enq, put, terminated, start_time, genVars,
                   listenVars, synthVars, failed>>

\* lines 266-274 and 208: a new generator() and a new recognition call,
\* whose request thread starts to iterate the generator; listen_loop starts
OpenSession ==
    /\ session' = session + 1
    /\ gen' = "while"
    /\ genEnd' = ""
    /\ genEndClosed' = FALSE
    /\ num_chars_printed' = 0
    /\ pc' = "listen"
    /\ UNCHANGED <<data, reading, delivered>>

\* mutant of MainLoop: the loop does not test stream.closed
MainLoopAlways ==
    /\ pc = "while"
    /\ OpenSession
    /\ UNCHANGED <<now, audioVars, vocab, nread, got, heard, shown, line,
                   dispatched, synthVars, failed>>

\* lines 264-274: while not stream.closed, one more session; leaving the
\* loop leaves the with block
MainLoop ==
    /\ pc = "while"
    /\ IF closed
         THEN pc' = "exit" /\ UNCHANGED <<genVars, num_chars_printed>>
         ELSE OpenSession
    /\ UNCHANGED <<now, audioVars, vocab, nread, got, heard, shown, line,
                   dispatched, synthVars, failed>>

\* mutant of FinalResult: the break of line 243 is missing
FinalResultNoBreak(text) ==
    /\ closed' = (closed \/ re_search(text))
    /\ dispatched' = Append(dispatched, text)
    /\ pc' = "translate"

\* lines 240-244: a final result either ends listen_loop (an exit keyword:
\* the break leads to the return and to line 265) or is passed on
FinalResult(text) ==
    IF re_search(text)
      THEN /\ closed' = TRUE
           /\ pc' = "while"
           /\ UNCHANGED dispatched
      ELSE /\ dispatched' = Append(dispatched, text)
           /\ pc' = "translate"
           /\ UNCHANGED closed

\* mutant of ListenNext: an empty response makes listen_loop forget the
\* length of the interim text
ListenNextForgets ==
    /\ pc = "listen"
    /\ nread < MaxResponses
    /\ \E r \in Responses(vocab) :
        /\ nread' = nread + 1
        /\ got' = r
        /\ IF ~Kept(r)
             THEN /\ num_chars_printed' = 0
                  /\ UNCHANGED <<heard, shown, line, dispatched, closed, pc>>
             ELSE LET result == r.results[1]
                      text == result.alternatives[1].transcript
                      overwrite_chars == Spaces(num_chars_printed - Len(text))
                  IN  /\ heard' = Append(heard, result)
                      /\ shown' = << [text |-> text, pad |-> overwrite_chars,
                                      final |-> result.is_final,
                                      prev |-> num_chars_printed,
                                      over |-> line] >>
                      /\ line' = IF result.is_final THEN 0 ELSE Len(text)
                      /\ IF ~result.is_final
                           THEN /\ num_chars_printed' = Len(text)
                                /\ UNCHANGED <<dispatched, closed, pc>>
                           ELSE /\ FinalResult(text)
                                /\ UNCHANGED num_chars_printed
    /\ UNCHANGED <<now, buff, enq, put, device, terminated, start_time, genVars,
                   vocab, synthVars, failed>>

\* lines 209-246 up to the call of translate_text: listen_loop reads the
\* next response r of the result stream.  An interim text is written with a
\* carriage return and stays on the line (line 232), a final text is printed
\* with a newline (line 237).
ListenNext ==
    /\ pc = "listen"
    /\ nread < MaxResponses
    /\ \E r \in Responses(vocab) :
        /\ nread' = nread + 1
        /\ got' = r
        /\ IF ~Kept(r)
             THEN UNCHANGED <<heard, num_chars_printed, shown, line,
                              dispatched, closed, pc>>
             ELSE LET result == r.results[1]
                      text == result.alternatives[1].transcript
                      overwrite_chars == Spaces(num_chars_printed - Len(text))
                  IN  /\ heard' = Append(heard, result)
                      /\ shown' = << [text |-> text, pad |-> overwrite_chars,
                                      final |-> result.is_final,
                                      prev |-> num_chars_printed,
                                      over |-> line] >>
                      /\ line' = IF result.is_final THEN 0 ELSE Len(text)
                      /\ IF ~result.is_final
                           THEN /\ num_chars_printed' = Len(text)
                                /\ UNCHANGED <<dispatched, closed, pc>>
                           ELSE /\ FinalResult(text)
                                /\ UNCHANGED num_chars_printed
    /\ UNCHANGED <<now, buff, enq, put, device, terminated, start_time, genVars,
                   vocab, synthVars, failed>>

\* line 209: the result stream ends, after the request stream (the generator)
\* has ended; listen_loop returns
ListenEnd ==
    /\ pc = "listen"
    /\ gen = "ended"
    /\ pc' = "while"
    /\ UNCHANGED <<now, audioVars, genVars, listenVars, synthVars, failed>>

\* the length of the clip file of index i (its last write)
FileLength(i) ==
    LET ws == { k \in 1..Len(files) : files[k].index = i }
    IN  files[CHOOSE k \in ws : \A j \in ws : j <= k].length

\* mutant of Translate: a failed backend call is caught and the utterance
\* counted
TranslateCaught ==
    /\ pc = "translate"
    /\ \/ /\ \E len \in 1..MaxClipLen :
               files' = Append(files, [index |-> RECORD_INC, length |-> len,
                                       sess |-> session])
          /\ pc' = "play"
          /\ failed' = failed
       \/ /\ pc' = "inc"
          /\ failed' = TRUE
          /\ files' = files
    /\ UNCHANGED <<now, audioVars, genVars, listenVars, RECORD_INC, PLAY_INC,
                   mp3Length, start, plays, playing>>

\* mutant of Translate: the clip file is named after PLAY_INC
TranslatePlayIndex ==
    /\ pc = "translate"
    /\ \/ /\ \E len \in 1..MaxClipLen :
               files' = Append(files, [index |-> PLAY_INC, length |-> len,
                                       sess |-> session])
          /\ pc' = "play"
          /\ failed' = failed
       \/ /\ pc' = "exit"
          /\ failed' = TRUE
          /\ files' = files
    /\ UNCHANGED <<now, audioVars, genVars, listenVars, RECORD_INC, PLAY_INC,
                   mp3Length, start, plays, playing>>

\* lines 194-199 and 162-182: the translation call and the synthesis call
\* return, and the clip is written to the file named after RECORD_INC; or
\* one of the two calls raises
Translate ==
    /\ pc = "translate"
    /\ \/ /\ \E len \in 1..MaxClipLen :
               files' = Append(files, [index |-> RECORD_INC, length |-> len,
                                       sess |-> session])
          /\ pc' = "play"
          /\ failed' = failed
       \/ /\ pc' = "exit"
          /\ failed' = TRUE
          /\ files' = files
    /\ UNCHANGED <<now, audioVars, genVars, listenVars, RECORD_INC, PLAY_INC,
                   mp3Length, start, plays, playing>>

\* mutant of SynthPlay: the clip of index PLAY_INC is played whenever
\* playback is not ahead
SynthPlayBehind ==
    /\ pc = "play"
    /\ IF PLAY_INC <= RECORD_INC
         THEN /\ mp3Length' = FileLength(PLAY_INC)
              /\ start' = now
              /\ plays' = Append(plays, [clip |-> PLAY_INC, len |-> mp3Length',
                                         overlap |-> playing > 0,
                                         waited |-> -1])
              /\ playing' = IF mp3Length' > playing THEN mp3Length' ELSE playing
              /\ pc' = "wait"
         ELSE /\ pc' = "inc"
              /\ UNCHANGED <<mp3Length, start, plays, playing>>
    /\ UNCHANGED <<now, audioVars, genVars, listenVars, RECORD_INC, PLAY_INC,
                   files, failed>>

\* lines 183-187: if the indices agree, playsound(file, False) starts the
\* clip and returns
SynthPlay ==
    /\ pc = "play"
    /\ IF PLAY_INC = RECORD_INC
         THEN /\ mp3Length' = FileLength(PLAY_INC)
              /\ start' = now
              /\ plays' = Append(plays, [clip |-> PLAY_INC, len |-> mp3Length',
                                         overlap |-> playing > 0,
                                         waited |-> -1])
              /\ playing' = IF mp3Length' > playing THEN mp3Length' ELSE playing
              /\ pc' = "wait"
         ELSE /\ pc' = "inc"
              /\ UNCHANGED <<mp3Length, start, plays, playing>>
    /\ UNCHANGED <<now, audioVars, genVars, listenVars, RECORD_INC, PLAY_INC,
                   files, failed>>

\* lines 188-191 and the returns to line 245: the body of the while runs at
\* most once; the locals end with the call
SynthWait ==
    /\ pc = "wait"
    /\ PLAY_INC' = IF now - start < mp3Length THEN PLAY_INC + 1 ELSE PLAY_INC
    /\ plays' = [plays EXCEPT ![Len(plays)].waited = now - start]
    /\ mp3Length' = 0
    /\ start' = 0
    /\ pc' = "inc"
    /\ UNCHANGED <<now, audioVars, genVars, listenVars, RECORD_INC, files,
                   playing, failed>>

\* mutant of IncRecord: the increment of line 245 is missing
IncRecordSkip ==
    /\ pc = "inc"
    /\ num_chars_printed' = 0
    /\ pc' = "listen"
    /\ UNCHANGED <<now, audioVars, genVars, vocab, nread, got, heard, shown,
                   line,
                   dispatched, synthVars, failed>>

\* lines 245-246
IncRecord ==
    /\ pc = "inc"
    /\ RECORD_INC' = RECORD_INC + 1
    /\ num_chars_printed' = 0
    /\ pc' = "listen"
    /\ UNCHANGED <<now, audioVars, genVars, vocab, nread, got, heard, shown,
                   line,
                   dispatched, PLAY_INC, mp3Length, start, files, plays,
                   playing, failed>>

\* mutant of ExitStop: the audio stream is left running
ExitStopLate ==
    /\ pc = "exit"
    /\ pc' = "exit_flag"
    /\ UNCHANGED <<now, audioVars, genVars, listenVars, synthVars, failed>>

\* __exit__, lines 118-119: stop_stream() and close()
ExitStop ==
    /\ pc = "exit"
    /\ device' = "closed"
    /\ pc' = "exit_flag"
    /\ UNCHANGED <<now, buff, enq, put, terminated, closed, start_time, genVars,
                   listenVars, synthVars, failed>>

\* line 120
ExitFlag ==
    /\ pc = "exit_flag"
    /\ closed' = TRUE
    /\ pc' = "exit_put"
    /\ UNCHANGED <<now, buff, enq, put, device, terminated, start_time, genVars,
                   listenVars, synthVars, failed>>

\* lines 123-124 and the end of main: the sentinel is put, the audio
\* interface terminated, and a pending exception is raised again
ExitPut ==
    /\ pc = "exit_put"
    /\ buff' = Append(buff, None)
    /\ put' = Append(put, None)
    /\ terminated' = TRUE
    /\ pc' = IF failed THEN "raised" ELSE "done"
    /\ UNCHANGED <<now, enq, device, closed, start_time, genVars, listenVars,
                   synthVars, failed>>

\* -------------------------------------------------------- specifications
GenStep == GenWhile \/ GenCheck \/ GenReset \/ GenGet \/ GenDrain

MainStep ==
    \/ MainEnter \/ MainLoop \/ ListenNext \/ ListenEnd \/ Translate
    \/ SynthPlay \/ SynthWait \/ IncRecord \/ ExitStop \/ ExitFlag \/ ExitPut

Next == Tick \/ Callback \/ GenStep \/ MainStep

Spec == Init /\ [][Next]_vars

\* The steps the program takes by itself: every step of the main thread but
\* the arrival of a response, which is an input.  A backend call returns or
\* raises, and the result stream ends once the request stream has ended.
MainProgress ==
    \/ MainEnter \/ MainLoop \/ ListenEnd \/ Translate \/ SynthPlay
    \/ SynthWait \/ IncRecord \/ ExitStop \/ ExitFlag \/ ExitPut

\* Both threads are scheduled: a thread that can take a step takes one.
FairSpec == Spec /\ WF_vars(MainProgress) /\ WF_vars(GenStep)

\* The exit-keyword test on its own: the backend returns one probe
\* transcript, and the main thread runs up to the end of listen_loop's
\* handling of the results.
InitMatch == \E t \in ProbeTranscripts : InitWith({t})

NextMatch == MainEnter \/ MainLoop \/ ListenNext

MatchSpec == InitMatch /\ [][NextMatch]_vars

\* the chunks delivered so far, in the order of delivery
DeliveredChunks == Flatten([i \in 1..Len(delivered) |-> delivered[i].data])

\* the chunks the callback has put so far, in capture order
Enqueued == [i \in 1..enq |-> i]

\* ------------------------------------------------------------------ C1
\* C1: the chunks delivered by the successive sessions, taken together, are
\* a prefix of the chunks put by the callback, without gap, duplicate or
\* reordering, and the units are delivered session after session; so a
\* session opened after an expiry starts with the chunk that follows the
\* last chunk delivered before.
C1_Continuity ==
    /\ Len(DeliveredChunks) <= enq
    /\ DeliveredChunks = SubSeq(Enqueued, 1, Len(DeliveredChunks))
    /\ \A i \in 1..Len(delivered) - 1 :
          delivered[i].sess <= delivered[i + 1].sess

\* a session opened after an expiry has delivered the chunk after the last
\* chunk of the session before
C1_Witness ==
    \E i \in 1..Len(delivered) - 1 :
        /\ delivered[i].sess = 1 /\ delivered[i + 1].sess = 2
        /\ Head(delivered[i + 1].data) = Last(delivered[i].data) + 1

\* ------------------------------------------------------------------ C2
\* C2: when a generator that met no window expiry ends at the sentinel (no
\* backend call having failed), the units it delivered hold every chunk that
\* was put before the sentinel.
C2_SentinelExact ==
    (session = 1 /\ genEnd = "sentinel" /\ ~failed) =>
        DeliveredChunks = Enqueued

\* ------------------------------------------------------------------ C3
\* C3 as claimed: a session ends by expiry only when the elapsed time exceeds
\* the limit, and no unit is delivered once the elapsed time has exceeded it.
C3_ExactExpiry ==
    /\ gen = "reset" => now - start_time > STREAMING_LIMIT
    /\ \A i \in 1..Len(delivered) : ~delivered[i].late

\* C3 as amended: the window is tested at the top of each round only.  A
\* session ends by expiry only after a test that read an elapsed time above
\* the limit, a round dequeues and delivers only after a test that read an
\* elapsed time within the limit, and so the session ends at the first test
\* that reads an elapsed time above the limit.
C3_ExpiryAtCheck ==
    /\ gen = "reset" =>
          reading > STREAMING_LIMIT /\ now - start_time > STREAMING_LIMIT
    /\ gen \in {"get", "drain"} => reading <= STREAMING_LIMIT

\* the first session delivered a unit after the elapsed time had exceeded
\* the limit, and ended by expiry at the test that followed
C3_Witness ==
    /\ \E i \in 1..Len(delivered) : delivered[i].late /\ delivered[i].sess = 1
    /\ session = 1 /\ gen = "ended" /\ genEnd = "expiry"

\* ------------------------------------------------------------------ C4
\* C4: in every state the played counter is at most the produced counter.
C4_PlayedAtMostProduced == PLAY_INC <= RECORD_INC

\* ------------------------------------------------------------------ C5
\* whole-word reading of the keywords: the maximal runs of word characters
\* of a text, and the spellings of a keyword in either letter case
Upper(c) ==
    CASE c = "e" -> "E" [] c = "x" -> "X" [] c = "i" -> "I" [] c = "t" -> "T"
      [] c = "q" -> "Q" [] c = "u" -> "U"

Spellings(lit) ==
    { w \in [1..Len(lit) -> Letters] :
        \A k \in 1..Len(lit) : w[k] \in {lit[k], Upper(lit[k])} }

IsWord(s, i, j) ==
    /\ \A k \in i..j : s[k] \in WordChars
    /\ i = 1 \/ s[i - 1] \notin WordChars
    /\ j = Len(s) \/ s[j + 1] \notin WordChars

HasExitWord(s) ==
    \E i \in 1..Len(s) : \E j \in i..Len(s) :
        /\ IsWord(s, i, j)
        /\ SubSeq(s, i, j) \in
             Spellings(<<"e", "x", "i", "t">>)
               \cup Spellings(<<"q", "u", "i", "t">>)

TextOf(result) == result.alternatives[1].transcript
IsExit(result) == result.is_final /\ HasExitWord(TextOf(result))
IsUtterance(result) == result.is_final /\ ~HasExitWord(TextOf(result))
ExitSeen == \E i \in 1..Len(heard) : IsExit(heard[i])

\* the main thread is inside translate_text for the last dispatched text, or
\* a backend call for it has raised
InFlight ==
    pc \in {"translate", "play", "wait", "inc"} \/ failed

\* C5: the texts passed to translate_text are the final results without an
\* exit keyword, in the order read and once each; nothing is read after a
\* final result with an exit keyword; an interim result dispatches nothing;
\* and RECORD_INC counts the dispatched texts whose translation and
\* synthesis have returned, the count being made before the next read.
C5_DispatchOnce ==
    LET utterances == SelectSeq(heard, IsUtterance)
    IN  /\ dispatched = [i \in 1..Len(utterances) |-> TextOf(utterances[i])]
        /\ \A i \in 1..Len(heard) - 1 : ~IsExit(heard[i])
        /\ RECORD_INC = Len(dispatched) - (IF InFlight THEN 1 ELSE 0)
        /\ pc = "translate" => IsUtterance(Last(heard))

\* an interim result was read and dispatched nothing, the final result after
\* it was dispatched, and its translation and synthesis have been counted
C5_Witness ==
    /\ Len(heard) = 2 /\ ~heard[1].is_final /\ IsUtterance(heard[2])
    /\ dispatched = << TextOf(heard[2]) >>
    /\ RECORD_INC = 1 /\ pc = "listen"

\* ------------------------------------------------------------------ C6
\* C6: synthesize_text returns from playing a clip only when the clip's
\* duration has elapsed since its playback started, PLAY_INC advancing no
\* earlier, so a clip starts only when the clip before it has ended.
C6_PlaybackBlocks ==
    /\ \A k \in 1..Len(plays) :
          plays[k].waited >= 0 => plays[k].waited >= plays[k].len
    /\ \A k \in 1..Len(plays) : ~plays[k].overlap

\* ------------------------------------------------------------------ C7
\* a step that reads a result which passes the filter
ReadsResult == Len(heard') = Len(heard) + 1

\* C7: reading a final result with an exit keyword sets stream.closed and
\* leaves listen_loop without a call of translate_text and without a change
\* of the counters, and no result is read afterwards; reading an interim
\* result, with an exit keyword or not, leaves stream.closed, the counters
\* and the dispatched texts as they are and stays in listen_loop.
C7_ExitKeyword ==
    [][ /\ (ReadsResult /\ IsExit(Last(heard'))) =>
              /\ closed' /\ pc' = "while"
              /\ dispatched' = dispatched
              /\ RECORD_INC' = RECORD_INC /\ PLAY_INC' = PLAY_INC
        /\ (ReadsResult /\ ~Last(heard').is_final) =>
              /\ closed' = closed /\ pc' = "listen"
              /\ dispatched' = dispatched
              /\ RECORD_INC' = RECORD_INC /\ PLAY_INC' = PLAY_INC
        /\ ExitSeen =>
              /\ nread' = nread /\ heard' = heard /\ dispatched' = dispatched
              /\ RECORD_INC' = RECORD_INC /\ PLAY_INC' = PLAY_INC
              /\ pc' \notin {"listen", "translate"} ]_vars

\* an interim result with an exit keyword was read without effect, and the
\* final result with an exit keyword after it has closed the stream
C7_Witness ==
    /\ Len(heard) = 2
    /\ ~heard[1].is_final /\ HasExitWord(TextOf(heard[1]))
    /\ IsExit(heard[2])
    /\ closed /\ pc = "while" /\ RECORD_INC = 0 /\ dispatched = <<>>

\* ------------------------------------------------------------------ C8
\* C8: a final transcript signals termination (sets stream.closed) exactly
\* when it holds "exit" or "quit", in any letter case, as a whole word.
C8_WholeWord ==
    (heard # <<>> /\ Last(heard).is_final) =>
        (closed <=> HasExitWord(TextOf(Last(heard))))

\* "s EXit" has signalled termination
C8_Witness ==
    /\ heard # <<>> /\ Last(heard).is_final
    /\ TextOf(Last(heard)) = <<"s", " ", "E", "X", "i", "t">>
    /\ closed

\* "sexit" and "exits" are read and signal nothing
C8_WitnessNoMatch ==
    /\ heard # <<>> /\ Last(heard).is_final
    /\ TextOf(Last(heard)) \in { <<"s", "e", "x", "i", "t">>,
                                 <<"e", "x", "i", "t", "s">> }
    /\ ~closed /\ pc = "translate"

\* ------------------------------------------------------------------ C9
ExitPath == {"exit", "exit_flag", "exit_put", "done", "raised"}

Released ==
    /\ device = "closed" /\ terminated
    /\ None \in {put[i] : i \in 1..Len(put)}

\* C9: once a final result with an exit keyword has been read, no session is
\* opened any more and main comes to its end, with the audio stream stopped
\* and closed, the audio interface terminated and the sentinel put; and main
\* leaves its loop only after an exit keyword or a failed backend call.
C9_Termination ==
    /\ [](pc \in ExitPath => ExitSeen \/ failed)
    /\ [][ExitSeen => session' = session]_vars
    /\ [](pc = "done" => Released)
    /\ ExitSeen ~> (pc = "done" /\ Released)

\* an exit keyword was read in the second session, and main has ended
C9_Witness == ExitSeen /\ session = 2 /\ pc = "done" /\ Released

\* ----------------------------------------------------------------- C10
\* the last generator ended by window expiry, with stream.closed false then
ExpiredOpen == gen = "ended" /\ genEnd = "expiry" /\ ~genEndClosed

\* C10 as claimed, in a form a finite run refutes: no backend call having
\* failed, main never leaves its loop while the last session is one that
\* ended by expiry with stream.closed false, since it has yet to open the
\* next one.
C10_AlwaysRestarts == (ExpiredOpen /\ ~failed) => pc \notin ExitPath

\* C10 as amended: after a session has ended by expiry main opens a new
\* generator() and recognition call, unless listen_loop first reads a final
\* result with an exit keyword or a backend call fails; the expiry sets the
\* window start to the time then read and touches neither queue nor device;
\* until the new session is opened the device stays started and the queue
\* is only appended to by the callback, and opening it changes neither.
C10_Restart ==
    /\ ExpiredOpen ~> (gen # "ended" \/ ExitSeen \/ failed)
    /\ [][(gen = "reset" /\ gen' = "ended") =>
             /\ start_time' = now /\ genEnd' = "expiry"
             /\ buff' = buff /\ put' = put /\ device' = device]_vars
    /\ []((ExpiredOpen /\ ~ExitSeen /\ ~failed) =>
             device = "active" /\ ~closed /\ ~terminated)
    /\ [][(ExpiredOpen /\ ~ExitSeen /\ ~failed) =>
             /\ device' = device /\ start_time' = start_time
             /\ buff' = buff \/ buff' = Append(buff, enq + 1)]_vars
    /\ [][session' # session =>
             /\ session' = session + 1 /\ gen' = "while"
             /\ ExpiredOpen \/ (session = 0 /\ gen = "none")
             /\ buff' = buff /\ device' = device /\ device = "active"]_vars

\* the second session, opened after an expiry, has delivered a unit
C10_Witness ==
    /\ session = 2 /\ start_time > 0 /\ device = "active"
    /\ \E i \in 1..Len(delivered) : delivered[i].sess = 2

\* ----------------------------------------------------------------- C11
\* C11: every display update is padded with a count of blanks that is never
\* negative and is at least the excess of the interim text that stands on
\* the same display line over the text written, so that nothing of the
\* earlier interim text remains; and listen_loop reads its next result after
\* a dispatched utterance with the remembered length at 0.
C11_OverwritePadding ==
    /\ \A k \in 1..Len(shown) :
          /\ shown[k].pad >= 0
          /\ shown[k].pad >= shown[k].over - Len(shown[k].text)
    /\ (pc = "listen" /\ heard # <<>> /\ IsUtterance(Last(heard))) =>
          num_chars_printed = 0

\* ----------------------------------------------------------------- C12
\* C12: a translation or synthesis call that fails takes the main thread
\* out of listen_loop and of main's loop at once, without a file, a play or
\* a change of the counters; from then on no result is read, nothing is
\* dispatched, no session is opened and the counters stay, RECORD_INC not
\* counting the failed utterance; main ends by raising, and it has then
\* stopped and closed the audio stream, set stream.closed, put the sentinel
\* and terminated the audio interface.
C12_FatalFailure ==
    /\ [][(failed' /\ ~failed) =>
             /\ pc = "translate" /\ pc' = "exit"
             /\ RECORD_INC' = RECORD_INC /\ PLAY_INC' = PLAY_INC
             /\ files' = files /\ plays' = plays]_vars
    /\ [][failed =>
             /\ failed' /\ pc' \in ExitPath \ {"done"}
             /\ RECORD_INC' = RECORD_INC /\ PLAY_INC' = PLAY_INC
             /\ nread' = nread /\ heard' = heard /\ shown' = shown
             /\ dispatched' = dispatched /\ session' = session
             /\ files' = files /\ plays' = plays]_vars
    /\ [](failed => RECORD_INC = Len(dispatched) - 1)
    /\ [](pc = "raised" => failed /\ closed /\ Released /\ Last(put) = None)
    /\ failed ~> (pc = "raised" /\ Released)

\* the backend failed on the second utterance: main has raised with the
\* resources released, and only the first utterance is counted and on file
C12_Witness ==
    /\ failed /\ pc = "raised" /\ Released
    /\ Len(dispatched) = 2 /\ RECORD_INC = 1 /\ Len(files) = 1

\* ----------------------------------------------------------------- C13
\* a response without results, or whose first result has no alternatives
IsEmpty(r) ==
    \/ Len(r.results) = 0
    \/ Len(r.results[1].alternatives) = 0

\* C13: the step that reads an empty response writes nothing to the display,
\* dispatches nothing, writes and plays no clip, leaves RECORD_INC, PLAY_INC,
\* stream.closed and the remembered interim length as they are, and leaves
\* listen_loop waiting for the next response; every other response read is
\* handled as a result.
C13_EmptySkipped ==
    [][ nread' = nread + 1 =>
          IF IsEmpty(got')
            THEN /\ shown' = shown /\ line' = line /\ heard' = heard
                 /\ dispatched' = dispatched
                 /\ files' = files /\ plays' = plays
                 /\ RECORD_INC' = RECORD_INC /\ PLAY_INC' = PLAY_INC
                 /\ closed' = closed
                 /\ num_chars_printed' = num_chars_printed
                 /\ pc = "listen" /\ pc' = "listen"
            ELSE /\ heard' = Append(heard, got'.results[1])
                 /\ shown' # <<>> /\ Last(shown').text = TextOf(got'.results[1])
      ]_vars

\* an interim text was remembered, a response whose result has no
\* alternatives was read after it, and the length is still remembered
C13_Witness ==
    /\ nread = 2 /\ Len(heard) = 1 /\ ~heard[1].is_final
    /\ got = [results |-> <<NoAlternatives>>]
    /\ num_chars_printed = Len(TextOf(heard[1])) /\ num_chars_printed > 0
    /\ pc = "listen"

\* a response without results was read first, and the final result after it
\* was dispatched
C13_WitnessNext ==
    /\ nread = 2 /\ Len(heard) = 1 /\ IsUtterance(heard[1])
    /\ dispatched = << TextOf(heard[1]) >> /\ pc = "translate"

\* ----------------------------------------------------------------- C14
\* the position of the sentinel in the order of the puts, 0 if none was put
SentinelAt ==
    IF \E i \in 1..Len(put) : put[i] = None
      THEN CHOOSE i \in 1..Len(put) : put[i] = None
      ELSE 0

\* C14: the step in which generator() dequeues the sentinel, in the blocking
\* get or in the drain, ends the generator without a delivery; a generator
\* that has ended delivers nothing, and none is started after one that ended
\* at the sentinel; so every chunk delivered was put before the sentinel.
C14_NothingAfterSentinel ==
    /\ [][(buff # <<>> /\ Head(buff) = None /\ buff' = Tail(buff)) =>
             /\ gen \in {"get", "drain"}
             /\ gen' = "ended" /\ genEnd' = "sentinel"
             /\ delivered' = delivered]_vars
    /\ [][gen = "ended" => delivered' = delivered]_vars
    /\ [][genEnd = "sentinel" =>
             gen' = "ended" /\ session' = session /\ buff' = buff]_vars
    /\ [](SentinelAt > 0 =>
             \A k \in 1..Len(DeliveredChunks) :
                \E i \in 1..SentinelAt - 1 : put[i] = DeliveredChunks[k])

\* the drain met the sentinel after the round had taken a chunk: the
\* generator has ended, the queue is empty and the chunk was not delivered
C14_Witness ==
    /\ gen = "ended" /\ genEnd = "sentinel" /\ buff = <<>>
    /\ enq > 0 /\ Len(DeliveredChunks) < enq

\* the blocking get met the sentinel after every chunk had been delivered
C14_WitnessGet ==
    /\ gen = "ended" /\ genEnd = "sentinel" /\ buff = <<>>
    /\ enq > 0 /\ Len(DeliveredChunks) = enq

\* ----------------------------------------------------------------- C15
\* C15: the sentinel is put by __exit__ only, after the audio stream has
\* been stopped, and the callback puts nothing once the stream is stopped;
\* so a sentinel is the last element ever put and there is at most one, and
\* exactly one when main has ended.  A generator that waits in the blocking
\* get while main is on its way out comes to its end: by the sentinel, or
\* by a chunk put before it and then the closed flag or the window test.
C15_CloseOrdering ==
    /\ [][put' # put =>
             /\ Len(put') = Len(put) + 1
             /\ SubSeq(put', 1, Len(put)) = put
             /\ IF Last(put') = None
                  THEN pc = "exit_put" /\ device = "closed" /\ closed
                  ELSE device = "active" /\ SentinelAt = 0]_vars
    /\ [](\A i \in 1..Len(put) : put[i] = None => i = Len(put))
    /\ [](pc \in {"done", "raised"} => put # <<>> /\ Last(put) = None)
    /\ (gen = "get" /\ pc \in ExitPath) ~> (gen = "ended")

\* the callback put two chunks and __exit__ then the sentinel, the last
\* element put; the generator has met it and main has ended
C15_Witness ==
    /\ put = <<1, 2, None>> /\ buff = <<>>
    /\ gen = "ended" /\ genEnd = "sentinel" /\ pc = "done"

\* the generator took an earlier chunk and ended on the closed flag, the
\* sentinel staying in the queue
C15_WitnessClosed ==
    /\ gen = "ended" /\ genEnd = "closed" /\ buff = <<None>>
    /\ delivered # <<>> /\ pc = "done"

\* ----------------------------------------------------------------- C16
\* a non-empty run of chunks that follow one another in capture order
IsRun(d) ==
    /\ d # <<>>
    /\ \A k \in 1..Len(d) - 1 : d[k + 1] = d[k] + 1

\* C16: a round starts its unit with the chunk the blocking get returned,
\* the head of the queue; every turn of the drain appends the next head;
\* the unit is yielded in the step that finds the queue empty, and is then a
\* run of chunks in capture order that ends with the last chunk put so far:
\* it holds every chunk that was in the queue when the blocking get
\* returned, and the queue holds none of them.
C16_UnitShape ==
    /\ [][(gen = "get" /\ gen' = "drain") =>
             /\ buff # <<>> /\ data' = <<Head(buff)>>
             /\ buff' = Tail(buff)]_vars
    /\ [][(gen = "drain" /\ gen' = "drain"
              /\ (data' # data \/ Len(buff') < Len(buff))) =>
             /\ buff # <<>> /\ data' = Append(data, Head(buff))
             /\ buff' = Tail(buff)]_vars
    /\ [][delivered' # delivered =>
             /\ gen = "drain" /\ buff = <<>> /\ buff' = <<>>
             /\ delivered' = Append(delivered, Last(delivered'))
             /\ Last(delivered').data = data
             /\ Last(data) = enq]_vars
    /\ [](gen = "drain" => IsRun(data))
    /\ [](\A i \in 1..Len(delivered) : IsRun(delivered[i].data))

\* a unit of two chunks was delivered: the chunk of the blocking get and the
\* chunk the drain found
C16_Witness ==
    \E i \in 1..Len(delivered) : delivered[i].data = <<1, 2>>

\* ----------------------------------------------------------------- C17
\* the clip of index i has been handed to the player
Played(i) == \E k \in 1..Len(plays) : plays[k].clip = i

\* a clip was written and the test of line 183 has passed it over
Skipped ==
    \E j \in 1..Len(files) :
        /\ ~Played(files[j].index)
        /\ j < Len(files) \/ pc # "play"

\* synthesize_text has written its clip and stands at the test of line 183
\* with the indices unequal
Mismatch == pc = "play" /\ PLAY_INC # RECORD_INC

BesideQueue ==
    <<now, device, terminated, closed, start_time, genVars, pc, listenVars,
      synthVars, failed>>

\* everything the generator does not keep for itself
BesideGenerator ==
    <<now, buff, enq, put, device, terminated, closed, session, delivered,
      pc, listenVars, synthVars, failed>>

\* C18: a run of the callback appends one new chunk at the tail of the
\* queue and changes nothing else, whatever the queue holds, and can run
\* whenever the audio stream is started; the step that ends a session by
\* window expiry sets the window start to the clock and changes nothing
\* else outside the generator, the queue least of all; and the window start
\* changes in no other step.
C18_Frames ==
    /\ [][enq' # enq =>
             /\ enq' = enq + 1
             /\ buff' = Append(buff, enq')
             /\ BesideQueue' = BesideQueue]_vars
    /\ [](ENABLED Callback <=> (device = "active" /\ enq < MaxChunks))
    /\ [][(genEnd' = "expiry" /\ genEnd # "expiry") =>
             /\ gen = "reset" /\ gen' = "ended"
             /\ start_time' = now
             /\ BesideGenerator' = BesideGenerator]_vars
    /\ [][start_time' # start_time =>
             genEnd' = "expiry" /\ genEnd # "expiry"]_vars

\* the callback has appended two chunks, and a window expiry has then ended
\* the session with both of them still in the queue
C18_Witness ==
    /\ buff = <<1, 2>> /\ delivered = <<>>
    /\ gen = "ended" /\ genEnd = "expiry" /\ start_time > 0

\* ----------------------------------------------------------------- C19
\* C19: every clip written so far having a positive duration, the indices
\* are equal whenever synthesize_text comes to the test of line 183, and
\* every clip whose call has passed the test has been played.
C19_EveryClipPlayed ==
    (\A j \in 1..Len(files) : files[j].length > 0) =>
        /\ pc = "play" => PLAY_INC = RECORD_INC
        /\ ~Skipped

====
